---- MODULE Spec2Model ----
(***************************************************************************)
(* A model of molecad's PubChem ingestion pipeline                         *)
(* (src/molecad/data/downloader.py): the validating url_builder, the       *)
(* sliding-window generator delay_iterations and the orchestrating         *)
(* generator execute_requests.                                             *)
(*                                                                         *)
(* Time is the value of time.monotonic(), counted in whole clock units.    *)
(* A generator runs only while its consumer is inside next(): one action   *)
(* is the code between two suspension points.                              *)
(***************************************************************************)
EXTENDS Integers, Sequences, FiniteSets, TLC

\* ------------------------------------------------------------- bounds
\* The longest batch of identifiers handed to url_builder on its own.
MaxBatch == 2
\* execute_requests is run on ranges within 1..MaxStop.
MaxStop == 5
\* The clock value up to which time passes during a pipeline run.
MaxWait == 2
\* The longest input handed to delay_iterations on its own.
MaxItems == 4
\* The clock value up to which the consumer may let time pass.
MaxTime == 3
\* The largest maxsize / waiting_time delay_iterations is called with.
MaxMaxsize == 2
MaxWaitingTime == 2
\* The longest input of each of two delay_iterations calls run interleaved.
MaxItemsTwo == 2
\* The clock value up to which the consumers of those two may let time pass.
MaxTimeTwo == 1

VARIABLES
    now,            \* time.monotonic()
    waiting_time,   \* delay_iterations' parameter
    maxsize,        \* delay_iterations' parameter
    iterable,       \* delay_iterations' input, a sequence of items
    pos,            \* how many items the for loop has taken from iterable
    window,         \* delay_iterations' list of timestamps
    dpc,            \* delay_iterations: "start" | "suspended" (at yield) | "done"
    emitted,        \* history: <<[item, at, window]>> of every yield of delay_iterations
    sleeps,         \* history: <<[after, t, delay]>> of every time.sleep
    checks,         \* history: <<[t, before, after, slept, delay]>> of every pass
                    \*   through the code after the yield
    chunk,          \* the ids handed to url_builder (execute_requests' loop variable)
    d,              \* the keyword arguments handed to url_builder
    built,          \* what the last url_builder call returned or raised
    args,           \* execute_requests' arguments [start, stop, maxsize]
    epc,            \* execute_requests: "start" | "loop" | "build" | "send" |
                    \*   "request" | "records" | "yielded" | "done" | "raised"
    cpull,          \* the consumer is inside next() on execute_requests
    res,            \* the response being iterated by for rec in res
    ri,             \* how many records of res have been yielded
    yielded,        \* history: the records handed to the consumer
    batches,        \* history: one entry per batch that reached url_builder
    two             \* two calls of delay_iterations alive at once: [gen, windows]

dvars == <<now, waiting_time, maxsize, iterable, pos, window, dpc, emitted, sleeps,
           checks>>

uvars == <<chunk, d, built>>

evars == <<args, epc, cpull, res, ri, yielded, batches>>

tvars == <<two>>

vars == <<now, waiting_time, maxsize, iterable, pos, window, dpc, emitted, sleeps,
          checks, chunk, d, built, args, epc, cpull, res, ri, yielded, batches,
          two>>

\* ---------------------------------------------------------- optionals
\* An Optional[...] argument: None, or the value given.
None == <<>>
Some(x) == <<x>>
IsNone(o) == o = <<>>
Get(o) == o[1]

\* ------------------------------------------------------------- strings
\* A string is a sequence of characters; a word of the fixed vocabulary
\* (a domain, a tag, ...) is kept as one character.
Str(word) == <<word>>

DigitChars == <<"0", "1", "2", "3", "4", "5", "6", "7", "8", "9">>

\* str(n) of a non-negative integer: its decimal digits.
RECURSIVE IntToStr(_)
IntToStr(n) ==
    IF n < 10 THEN <<DigitChars[n + 1]>>
    ELSE IntToStr(n \div 10) \o <<DigitChars[(n % 10) + 1]>>

\* sep.join(parts) for a sequence of strings.
RECURSIVE Join(_, _)
Join(parts, sep) ==
    IF parts = <<>> THEN <<>>
    ELSE IF Len(parts) = 1 THEN Head(parts)
    ELSE Head(parts) \o <<sep>> \o Join(Tail(parts), sep)

\* molecad.data.utils.concat(*args, sep="/"): the arguments, as strings,
\* joined by the separator.
concat(parts, sep) == Join(parts, sep)

\* ------------------------------------------------------------ url_builder
BASE_URL == Str("https://pubchem.ncbi.nlm.nih.gov/rest/pug")

\* molecad.types_: the vocabularies the validators accept.
Domain == {"compound"}
NamespCmpd == {"cid", "name"}
PrefixSearch == {"fastsubstructure"}
SuffixSearch == {"smiles"}
Operation == {"record"}
OperationComplex == {"property"}

\* molecad.validator
is_compound(domain) == domain \in Domain

is_simple_namespace(prefix, suffix) == prefix \in NamespCmpd /\ IsNone(suffix)

is_namespace_search(prefix, suffix) ==
    prefix \in PrefixSearch /\ ~IsNone(suffix) /\ Get(suffix) \in SuffixSearch

is_simple_operation(operation, tags) == operation \in Operation /\ IsNone(tags)

is_complex_operation(operation, tags) ==
    operation \in OperationComplex /\ ~IsNone(tags) /\ Get(tags) # <<>>

\* What a call gives back: a value, or an exception.
Return(v) == [kind |-> "return", value |-> v]
Raise(e) == [kind |-> "raise", exc |-> e]
NotCalled == [kind |-> "none"]

\* concat(*ids, sep=","): the identifiers of a batch, as strings.
IdStrings(ids) == [i \in DOMAIN ids |-> IntToStr(ids[i])]

\* OperationSpec without its final else: any other operation is taken as a
\* simple one.
OperationSpec_NoRaise(kw) ==
    IF is_complex_operation(kw.operation, kw.tags)
    THEN Return(concat(<<Str(kw.operation),
                         concat([i \in DOMAIN Get(kw.tags) |-> Str(Get(kw.tags)[i])], ",")>>,
                       "/"))
    ELSE Return(Str(kw.operation))

\* lines 100-106, the domain and the namespace having passed
OperationSpec(kw) ==
    IF is_complex_operation(kw.operation, kw.tags)
    THEN Return(concat(<<Str(kw.operation),
                         concat([i \in DOMAIN Get(kw.tags) |-> Str(Get(kw.tags)[i])], ",")>>,
                       "/"))
    ELSE IF is_simple_operation(kw.operation, kw.tags)
    THEN Return(Str(kw.operation))
    ELSE Raise("BadOperationError")

\* lines 90-95
JoinedNamespaces(kw) ==
    IF is_simple_namespace(kw.namespace_prefix, kw.namespace_suffix)
    THEN Return(Str(kw.namespace_prefix))
    ELSE IF is_namespace_search(kw.namespace_prefix, kw.namespace_suffix)
    THEN Return(concat(<<Str(kw.namespace_prefix), Str(Get(kw.namespace_suffix))>>, "/"))
    ELSE Raise("BadNamespaceError")

\* url_builder with the namespace validated before the domain.
url_builder_NamespaceFirst(ids, kw) ==
    LET joined_namespaces == JoinedNamespaces(kw) IN
    IF joined_namespaces.kind = "raise" THEN joined_namespaces
    ELSE IF ~is_compound(kw.domain) THEN Raise("BadDomainError")
    ELSE LET joined_identifiers == concat(IdStrings(ids), ",")
             input_spec == concat(<<Str(kw.domain), joined_namespaces.value,
                                    joined_identifiers>>, "/")
             operation_spec == OperationSpec(kw)
         IN
    IF operation_spec.kind = "raise" THEN operation_spec
    ELSE Return(concat(<<BASE_URL, input_spec, operation_spec.value, Str(kw.output)>>, "/"))

\* The body of url_builder, lines 87-109, given what the unpacking *ids of
\* line 97 comes to: the arguments it hands to concat, or the exception it
\* raises there, after the domain and the namespace have passed.
UrlBuilderBody(unpacked, kw) ==
    IF ~is_compound(kw.domain) THEN Raise("BadDomainError")
    ELSE LET joined_namespaces == JoinedNamespaces(kw) IN
    IF joined_namespaces.kind = "raise" THEN joined_namespaces
    ELSE IF unpacked.kind = "raise" THEN unpacked
    ELSE LET joined_identifiers == concat(unpacked.value, ",")
             input_spec == concat(<<Str(kw.domain), joined_namespaces.value,
                                    joined_identifiers>>, "/")
             operation_spec == OperationSpec(kw)
         IN
    IF operation_spec.kind = "raise" THEN operation_spec
    ELSE Return(concat(<<BASE_URL, input_spec, operation_spec.value, Str(kw.output)>>, "/"))

\* url_builder(ids, **kw) for ids a batch of numbers: the URL, or the
\* validation error raised.
url_builder(ids, kw) == UrlBuilderBody(Return(IdStrings(ids)), kw)

\* The shapes of ids that the docstring of url_builder allows: a number, a
\* string, a sequence of numbers, a sequence of strings.
\* (nums holds the number or numbers, strs the string or strings.)
IdNumber(n) == [shape |-> "number", nums |-> <<n>>, strs |-> <<>>]
IdString(str) == [shape |-> "string", nums |-> <<>>, strs |-> <<str>>]
IdNumbers(ns) == [shape |-> "numbers", nums |-> ns, strs |-> <<>>]
IdStringSeq(strs) == [shape |-> "strings", nums |-> <<>>, strs |-> strs]

\* *ids: a sequence gives its elements, a string gives its characters one by
\* one, a number is not iterable (TypeError); concat takes each as a string.
Unpack(a) ==
    CASE a.shape = "number" -> Raise("TypeError")
      [] a.shape = "string" -> Return([i \in DOMAIN a.strs[1] |-> <<a.strs[1][i]>>])
      [] a.shape = "numbers" -> Return(IdStrings(a.nums))
      [] a.shape = "strings" -> Return(a.strs)

\* url_builder(ids, **kw) for ids of any of the shapes.
url_builder_any(a, kw) == UrlBuilderBody(Unpack(a), kw)

\* The request specifications url_builder is tried on: every combination of
\* legal and illegal domain, namespace and operation.
UrlDomains == {"compound", "substance", "invalid"}
UrlPrefixes == {"cid", "fastsubstructure", "", "bogus"}
UrlSuffixes == {None, Some("smiles"), Some("bogus")}
UrlOperations == {"record", "property", "bogus"}
UrlTags == {None, Some(<<>>), Some(<<"MolecularFormula">>),
            Some(<<"MolecularFormula", "MolecularWeight">>)}
UrlOutputs == {"JSON"}
UrlBatches == {[i \in 1..n |-> first + i - 1] : first \in {1, 9}, n \in 1..MaxBatch}

\* The identifiers tried one at a time, as numbers and as strings, and a name.
SingleIds == {7, 10, 2244}
CompoundName == <<"a", "b">>

\* The ids url_builder is tried on, of every shape.
IdArguments ==
    {IdNumber(n) : n \in SingleIds}
    \cup {IdString(IntToStr(n)) : n \in SingleIds}
    \cup {IdString(CompoundName)}
    \cup {IdNumbers(b) : b \in UrlBatches}
    \cup {IdStringSeq(IdStrings(b)) : b \in UrlBatches}
    \cup {IdStringSeq(<<CompoundName>>)}

RequestSpecs ==
    [domain : UrlDomains, namespace_prefix : UrlPrefixes,
     namespace_suffix : UrlSuffixes, operation : UrlOperations,
     tags : UrlTags, output : UrlOutputs]

\* url = url_builder(ids, **d)
CallUrlBuilder ==
    /\ built = NotCalled
    /\ built' = url_builder(chunk, d)
    /\ UNCHANGED <<chunk, d>>
    /\ UNCHANGED dvars
    /\ UNCHANGED evars
    /\ UNCHANGED tvars

\* url = url_builder(ids, **d) for ids of any shape
CallUrlBuilderAny ==
    /\ built = NotCalled
    /\ built' = url_builder_any(chunk, d)
    /\ UNCHANGED <<chunk, d>>
    /\ UNCHANGED dvars
    /\ UNCHANGED evars
    /\ UNCHANGED tvars

\* No url_builder call is pending or made.
UrlIdle ==
    /\ chunk = <<>>
    /\ d = <<>>
    /\ built = NotCalled

\* No second pair of delay_iterations generators exists.
TwoIdle == two = <<>>

\* No execute_requests generator exists.
ExecIdle ==
    /\ args = <<>>
    /\ epc = "none"
    /\ cpull = FALSE
    /\ res = <<>>
    /\ ri = 0
    /\ yielded = <<>>
    /\ batches = <<>>

\* ---------------------------------------------------- delay_iterations

\* The pruning loop with >= for >: a timestamp exactly waiting_time old goes too.
RECURSIVE Prune_Inclusive(_, _, _)
Prune_Inclusive(w, t, wt) ==
    IF w # <<>> /\ t - wt >= Head(w) THEN Prune_Inclusive(Tail(w), t, wt) ELSE w

\* The pruning loop left out.
Prune_NoPrune(w, t, wt) == w

\* while t - waiting_time > window[0]: window.pop(0)
RECURSIVE Prune(_, _, _)
Prune(w, t, wt) ==
    IF w # <<>> /\ t - wt > Head(w) THEN Prune(Tail(w), t, wt) ELSE w

\* window.insert(0, t) for window.append(t)
Recorded_Prepend(w, t, wt) == Prune(<<t>> \o w, t, wt)

\* window.append(t) followed by the pruning loop
Recorded(w, t, wt) == Prune(Append(w, t), t, wt)

\* A pacing check that does not wait for maxsize: if len(window) > 0
MustSleep_NonEmpty(w, ms) == Len(w) > 0

\* if len(window) > maxsize
MustSleep(w, ms) == Len(w) > ms

\* t0 = window[0]; delay = t - t0
Delay(w, t) == t - Head(w)

\* The code after a yield up to the end of the loop body: the time is read,
\* recorded, the window pruned and, when it is over maxsize, the thread sleeps.
\* time.sleep(delay) returns once the clock has advanced by delay.
AfterYield ==
    LET t == now
        w == Recorded(window, t, waiting_time)
    IN  /\ window' = w
        /\ checks' = Append(checks,
                [t |-> t, before |-> window, after |-> w,
                 slept |-> MustSleep(w, maxsize),
                 delay |-> IF MustSleep(w, maxsize) THEN Delay(w, t) ELSE 0])
        /\ IF MustSleep(w, maxsize)
           THEN /\ now' = t + Delay(w, t)
                /\ sleeps' = Append(sleeps,
                        [after |-> pos, t |-> t, delay |-> Delay(w, t)])
           ELSE /\ now' = now
                /\ sleeps' = sleeps

\* A loop that stops one item short of the input.
TakeNext_StopEarly ==
    IF pos + 1 < Len(iterable)
    THEN /\ pos' = pos + 1
         /\ dpc' = "suspended"
         /\ emitted' = Append(emitted,
                [item |-> iterable[pos + 1], at |-> now', window |-> window'])
    ELSE /\ dpc' = "done"
         /\ UNCHANGED <<pos, emitted>>

\* for i in iterable: yield i   (the generator suspends with the item handed out)
TakeNext ==
    IF pos < Len(iterable)
    THEN /\ pos' = pos + 1
         /\ dpc' = "suspended"
         /\ emitted' = Append(emitted,
                [item |-> iterable[pos + 1], at |-> now', window |-> window'])
    ELSE /\ dpc' = "done"
         /\ UNCHANGED <<pos, emitted>>

\* One next() on the generator: from the call (or the last yield) to the next
\* yield or to the end of the input.
DelayNext ==
    /\ dpc \in {"start", "suspended"}
    /\ IF dpc = "suspended"
       THEN AfterYield
       ELSE UNCHANGED <<now, window, sleeps, checks>>
    /\ TakeNext
    /\ UNCHANGED <<waiting_time, maxsize, iterable>>

\* The consumer of delay_iterations asks for the next item.
Pull ==
    /\ DelayNext
    /\ UNCHANGED uvars
    /\ UNCHANGED evars
    /\ UNCHANGED tvars

\* The consumer holds an item while time passes.
Tick ==
    /\ dpc = "suspended"
    /\ now < MaxTime
    /\ now' = now + 1
    /\ UNCHANGED <<waiting_time, maxsize, iterable, pos, window, dpc, emitted, sleeps,
                   checks>>
    /\ UNCHANGED uvars
    /\ UNCHANGED evars
    /\ UNCHANGED tvars

\* No delay_iterations generator exists.
DelayIdle ==
    /\ now = 0
    /\ waiting_time = 0
    /\ maxsize = 0
    /\ iterable = <<>>
    /\ pos = 0
    /\ window = <<>>
    /\ dpc = "none"
    /\ emitted = <<>>
    /\ sleeps = <<>>
    /\ checks = <<>>

\* delay_iterations(iterable, waiting_time, maxsize) called on a fresh input.
InitDelay ==
    /\ now = 0
    /\ waiting_time \in 0..MaxWaitingTime
    /\ maxsize \in 1..MaxMaxsize
    /\ \E n \in 0..MaxItems : iterable = [i \in 1..n |-> i]
    /\ pos = 0
    /\ window = <<>>
    /\ dpc = "start"
    /\ emitted = <<>>
    /\ sleeps = <<>>
    /\ checks = <<>>
    /\ UrlIdle
    /\ ExecIdle
    /\ TwoIdle

NextDelay == Pull \/ Tick

SpecDelay == InitDelay /\ [][NextDelay]_vars

\* ------------------------------------- two delay_iterations interleaved

\* The two calls, whose generators one thread advances in any order.
Invocations == {1, 2}

\* A window kept in one list of the module, which every call uses.
Scope_Process(g) == 1

\* window = [] is a local of the call: the list of call g is g's own.
Scope(g) == g

\* delay_iterations(iterable, waiting_time, maxsize) called, before its first
\* next(); stamps is the history of the times the call recorded.
NewInvocation(n, wt, ms) ==
    [waiting_time |-> wt, maxsize |-> ms, iterable |-> [i \in 1..n |-> i],
     pos |-> 0, dpc |-> "start", emitted |-> <<>>, sleeps |-> <<>>,
     stamps |-> <<>>]

\* The list that the name window denotes in call g.
WindowOf(g) == two.windows[Scope(g)]

\* One next() on the generator of call g: the first one runs window = [], a
\* later one the code after the yield (time read and recorded, window pruned,
\* the thread put to sleep when the window is over maxsize); then the for loop
\* yields the next item or ends.
NextOf(g) ==
    LET me == two.gen[g]
        t == now
        resumed == me.dpc = "suspended"
        w == IF resumed THEN Recorded(WindowOf(g), t, me.waiting_time) ELSE <<>>
        sleep == resumed /\ MustSleep(w, me.maxsize)
        more == me.pos < Len(me.iterable)
    IN  /\ me.dpc \in {"start", "suspended"}
        /\ now' = IF sleep THEN t + Delay(w, t) ELSE now
        /\ two' =
            [gen |-> [two.gen EXCEPT ![g] = [me EXCEPT
                !.pos = IF more THEN @ + 1 ELSE @,
                !.dpc = IF more THEN "suspended" ELSE "done",
                !.emitted = IF more
                            THEN Append(@, [item |-> me.iterable[me.pos + 1],
                                            at |-> now'])
                            ELSE @,
                !.sleeps = IF sleep
                           THEN Append(@, [after |-> me.pos, t |-> t,
                                           delay |-> Delay(w, t)])
                           ELSE @,
                !.stamps = IF resumed THEN Append(@, t) ELSE @]],
             windows |-> [two.windows EXCEPT ![Scope(g)] = w]]
        /\ UNCHANGED <<waiting_time, maxsize, iterable, pos, window, dpc, emitted,
                       sleeps, checks>>
        /\ UNCHANGED uvars
        /\ UNCHANGED evars

\* The thread advances one of the two generators.
PullTwo == \E g \in Invocations : NextOf(g)

\* Time passes while a consumer holds an item of either call.
TickTwo ==
    /\ \E g \in Invocations : two.gen[g].dpc = "suspended"
    /\ now < MaxTimeTwo
    /\ now' = now + 1
    /\ UNCHANGED <<waiting_time, maxsize, iterable, pos, window, dpc, emitted, sleeps,
                   checks>>
    /\ UNCHANGED uvars
    /\ UNCHANGED evars
    /\ UNCHANGED tvars

\* Two calls of delay_iterations, each with its own input and parameters.
InitTwo ==
    /\ \E f \in [Invocations ->
                    {NewInvocation(n, wt, ms) : n \in 0..MaxItemsTwo,
                                                wt \in 0..MaxWaitingTime,
                                                ms \in 1..MaxMaxsize}] :
          two = [gen |-> f, windows |-> [g \in Invocations |-> <<>>]]
    /\ DelayIdle
    /\ UrlIdle
    /\ ExecIdle

NextTwo == PullTwo \/ TickTwo

SpecTwo == InitTwo /\ [][NextTwo]_vars

\* url_builder called once on any batch and any request specification.
InitUrl ==
    /\ chunk \in UrlBatches
    /\ d \in RequestSpecs
    /\ built = NotCalled
    /\ DelayIdle
    /\ ExecIdle
    /\ TwoIdle

NextUrl == CallUrlBuilder

SpecUrl == InitUrl /\ [][NextUrl]_vars

\* url_builder called once on ids of any shape and any request specification.
InitIds ==
    /\ chunk \in IdArguments
    /\ d \in RequestSpecs
    /\ built = NotCalled
    /\ DelayIdle
    /\ ExecIdle
    /\ TwoIdle

NextIds == CallUrlBuilderAny

SpecIds == InitIds /\ [][NextIds]_vars

\* ------------------------------------------------------ execute_requests

\* delay_iterations' defaults, which execute_requests runs it with.
DefaultWaitingTime == 60
DefaultMaxsize == 400

\* molecad.data.utils.generate_ids(start, stop): start, ..., stop - 1.
generate_ids(start, stop) == [i \in 1..(stop - start) |-> start + i - 1]

\* molecad.data.utils.chunked(seq, n): consecutive pieces of length n, the
\* last one possibly shorter.
RECURSIVE chunked(_, _)
chunked(seq, n) ==
    IF seq = <<>> THEN <<>>
    ELSE IF Len(seq) <= n THEN <<seq>>
    ELSE <<SubSeq(seq, 1, n)>> \o chunked(SubSeq(seq, n + 1, Len(seq)), n)

\* lines 168-181
tags ==
    <<"MolecularFormula", "MolecularWeight", "CanonicalSMILES", "InChI",
      "IUPACName", "XLogP", "HBondDonorCount", "HBondAcceptorCount",
      "RotatableBondCount", "AtomStereoCount", "BondStereoCount", "Volume3D">>

\* lines 182-189
HardcodedSpec ==
    [domain |-> "compound", namespace_prefix |-> "cid", namespace_suffix |-> None,
     operation |-> "property", tags |-> Some(tags), output |-> "JSON"]

\* The request specification of a run: the one execute_requests hardcodes, and
\* that one with its domain, its namespace or its operation made invalid, which
\* is what brings the handlers of lines 200-205 into play.
PipelineSpecs ==
    { HardcodedSpec,
      [HardcodedSpec EXCEPT !.domain = "invalid"],
      [HardcodedSpec EXCEPT !.namespace_prefix = "bogus"],
      [HardcodedSpec EXCEPT !.tags = None] }

\* A property record of the compound cid.
Rec(cid) == [CID |-> cid]

\* The property arrays a server may answer a batch with: none, one record per
\* identifier in order, the same reversed, the first only.
Responses(ids) ==
    LET all == [i \in DOMAIN ids |-> Rec(ids[i])]
        rev == [i \in DOMAIN ids |-> Rec(ids[Len(ids) + 1 - i])]
    IN  {<<>>, all, rev, SubSeq(all, 1, 1)}

Body(json, envelope, properties) ==
    [json |-> json, envelope |-> envelope, properties |-> properties]

HttpResponse(status, body) == [kind |-> "response", status |-> status, body |-> body]

\* What requests.get(url) may come back with for a batch: an HTTP response
\* (status and body), or an exception of the transport.
NetOutcomes(ids) ==
    {HttpResponse(200, Body(TRUE, TRUE, r)) : r \in Responses(ids)}
    \cup { HttpResponse(404, Body(TRUE, FALSE, <<>>)),
           HttpResponse(503, Body(FALSE, FALSE, <<>>)),
           HttpResponse(200, Body(FALSE, FALSE, <<>>)),
           HttpResponse(200, Body(TRUE, FALSE, <<>>)),
           HttpResponse(500, Body(TRUE, TRUE, <<Rec(ids[1])>>)),
           Raise("HTTPError"),
           Raise("ConnectionError") }

\* request_property_data_json(url): requests.get(url).json() and the lookup of
\* ["PropertyTable"]["Properties"]; the status is not looked at.
request_property_data_json(net) ==
    IF net.kind = "raise" THEN net
    ELSE IF ~net.body.json THEN Raise("JSONDecodeError")
    ELSE IF ~net.body.envelope THEN Raise("KeyError")
    ELSE Return(net.body.properties)

\* The try statement of lines 193-209: what becomes of the batch.
Handled(result) ==
    IF result.kind = "return" THEN "success"
    ELSE IF result.exc = "HTTPError" THEN "break"
    ELSE IF result.exc \in {"BadDomainError", "BadNamespaceError", "BadOperationError"}
    THEN "skip"
    ELSE "escape"

\* AfterBuild with the validation handlers ending the loop.
AfterBuild_Stop(b) == IF Handled(b) = "success" THEN "send" ELSE "done"

\* AfterBuild with the request outside the try statement's protection: it is
\* made whatever url_builder did.
AfterBuild_AlwaysSend(b) == "send"

\* Where execute_requests goes after url_builder: on to the request, or, the
\* validation error logged, back to the loop.
AfterBuild(b) == IF Handled(b) = "success" THEN "send" ELSE "loop"

\* AfterRequest with the loop over the response missing: the next chunk is
\* taken at once.
AfterRequest_SkipRecords(result) ==
    CASE Handled(result) = "success" -> "loop"
      [] Handled(result) = "break" -> "done"
      [] Handled(result) = "skip" -> "loop"
      [] OTHER -> "raised"

\* AfterRequest with the HTTPError handler lacking its break.
AfterRequest_Continue(result) ==
    CASE Handled(result) = "success" -> "records"
      [] Handled(result) = "break" -> "loop"
      [] Handled(result) = "skip" -> "loop"
      [] OTHER -> "raised"

\* Where execute_requests goes once the request has returned or raised.
AfterRequest(result) ==
    CASE Handled(result) = "success" -> "records"
      [] Handled(result) = "break" -> "done"
      [] Handled(result) = "skip" -> "loop"
      [] OTHER -> "raised"

\* seen: how many records the consumer had been handed when the request of the
\* batch went out.
Batch(c, b) ==
    [chunk |-> c, built |-> b, requested |-> FALSE, seen |-> 0, net |-> NotCalled,
     result |-> NotCalled,
     handled |-> IF b.kind = "return" THEN "pending" ELSE Handled(b)]

\* AtYield with the record appended to a result list instead of yielded: the
\* function keeps running.
AtYield_Eager == [epc |-> "records", cpull |-> TRUE]

\* yield rec: the generator is suspended and the consumer's next() returns
AtYield == [epc |-> "yielded", cpull |-> FALSE]

\* Chunks with stop taken as the last identifier requested.
Chunks_Inclusive(a) == chunked(generate_ids(a.start, a.stop + 1), a.maxsize)

\* chunks = chunked(generate_ids(start, stop), maxsize)
Chunks(a) == chunked(generate_ids(a.start, a.stop), a.maxsize)

\* delay_iterations(chunks) runs with its defaults; ScaledPacing is the same
\* call with the defaults scaled down to the few batches of a bounded run, so
\* that the window fills.
ScaledPacing == [waiting_time |-> 1, maxsize |-> 1]
PipelinePacing ==
    {[waiting_time |-> DefaultWaitingTime, maxsize |-> DefaultMaxsize], ScaledPacing}

\* NextRec iterating the response from its end.
NextRec_Reversed(r, i) == r[Len(r) - i]

\* for rec in res: the record that follows the i already yielded
NextRec(r, i) == r[i + 1]

\* The consumer calls next() on the generator.
ExecNext ==
    /\ ~cpull
    /\ epc \in {"start", "yielded"}
    /\ cpull' = TRUE
    /\ epc' = IF epc = "start" THEN "loop" ELSE "records"
    /\ UNCHANGED <<args, res, ri, yielded, batches>>
    /\ UNCHANGED dvars
    /\ UNCHANGED uvars
    /\ UNCHANGED tvars

\* for chunk in delay_iterations(chunks)
LoopNext ==
    /\ cpull
    /\ epc = "loop"
    /\ DelayNext
    /\ IF dpc' = "suspended"
       THEN /\ chunk' = iterable[pos']
            /\ epc' = "build"
            /\ cpull' = cpull
       ELSE /\ chunk' = chunk
            /\ epc' = "done"
            /\ cpull' = FALSE
    /\ UNCHANGED <<d, built>>
    /\ UNCHANGED <<args, res, ri, yielded, batches>>
    /\ UNCHANGED tvars

\* url = url_builder(chunk, **d), and the handlers of the validation errors
BuildUrl ==
    /\ cpull
    /\ epc = "build"
    /\ built' = url_builder(chunk, d)
    /\ batches' = Append(batches, Batch(chunk, built'))
    /\ epc' = AfterBuild(built')
    /\ UNCHANGED <<chunk, d, args, cpull, res, ri, yielded>>
    /\ UNCHANGED dvars
    /\ UNCHANGED tvars

\* logger.debug(url); the GET of request_property_data_json(url) goes out
SendRequest ==
    /\ cpull
    /\ epc = "send"
    /\ batches' = [batches EXCEPT ![Len(batches)].requested = TRUE,
                                  ![Len(batches)].seen = Len(yielded)]
    /\ epc' = "request"
    /\ UNCHANGED <<args, cpull, res, ri, yielded>>
    /\ UNCHANGED dvars
    /\ UNCHANGED uvars
    /\ UNCHANGED tvars

\* The request comes back: res is set, or the exception is handled or escapes.
Respond ==
    /\ cpull
    /\ epc = "request"
    /\ \E net \in NetOutcomes(chunk) :
        LET result == request_property_data_json(net) IN
        /\ batches' = [batches EXCEPT ![Len(batches)].net = net,
                                      ![Len(batches)].result = result,
                                      ![Len(batches)].handled = Handled(result)]
        /\ epc' = AfterRequest(result)
        /\ res' = IF result.kind = "return" THEN result.value ELSE res
        /\ ri' = IF result.kind = "return" THEN 0 ELSE ri
        /\ cpull' = (epc' \notin {"done", "raised"})
    /\ UNCHANGED <<args, yielded>>
    /\ UNCHANGED dvars
    /\ UNCHANGED uvars
    /\ UNCHANGED tvars

\* for rec in res: yield rec
NextRecord ==
    /\ cpull
    /\ epc = "records"
    /\ IF ri < Len(res)
       THEN /\ ri' = ri + 1
            /\ yielded' = Append(yielded, NextRec(res, ri))
            /\ epc' = AtYield.epc
            /\ cpull' = AtYield.cpull
       ELSE /\ epc' = "loop"
            /\ UNCHANGED <<ri, yielded, cpull>>
    /\ UNCHANGED <<args, res, batches>>
    /\ UNCHANGED dvars
    /\ UNCHANGED uvars
    /\ UNCHANGED tvars

\* Time passes while the request is out or the consumer holds a record.
Wait ==
    /\ epc \in {"request", "yielded"}
    /\ now < MaxWait
    /\ now' = now + 1
    /\ UNCHANGED <<waiting_time, maxsize, iterable, pos, window, dpc, emitted, sleeps,
                   checks>>
    /\ UNCHANGED uvars
    /\ UNCHANGED evars
    /\ UNCHANGED tvars

\* execute_requests(start, stop, maxsize) called; nothing runs before the first
\* next().
Init ==
    /\ args \in [start : 1..MaxStop, stop : 1..MaxStop, maxsize : 1..MaxBatch]
    /\ d \in PipelineSpecs
    /\ chunk = <<>>
    /\ built = NotCalled
    /\ epc = "start"
    /\ cpull = FALSE
    /\ res = <<>>
    /\ ri = 0
    /\ yielded = <<>>
    /\ batches = <<>>
    /\ now = 0
    /\ \E p \in PipelinePacing :
            /\ waiting_time = p.waiting_time
            /\ maxsize = p.maxsize
    /\ iterable = Chunks(args)
    /\ pos = 0
    /\ window = <<>>
    /\ dpc = "start"
    /\ emitted = <<>>
    /\ sleeps = <<>>
    /\ checks = <<>>
    /\ TwoIdle

Next ==
    \/ ExecNext
    \/ LoopNext
    \/ BuildUrl
    \/ SendRequest
    \/ Respond
    \/ NextRecord
    \/ Wait

Spec == Init /\ [][Next]_vars

\* What keeps a run going: the consumer keeps calling next() (ExecNext), every
\* request comes back (Respond), and the interpreter runs the code of the
\* generator to its next yield (the other steps). Nothing obliges time to pass
\* while a request is out or a record is held (Wait).
Fairness ==
    /\ WF_vars(ExecNext)
    /\ WF_vars(LoopNext)
    /\ WF_vars(BuildUrl)
    /\ WF_vars(SendRequest)
    /\ WF_vars(Respond)
    /\ WF_vars(NextRecord)

SpecLive == Init /\ [][Next]_vars /\ Fairness

\* ------------------------------------------------- rate limiter claims

\* The sum of the delays slept so far.
RECURSIVE SumDelays(_)
SumDelays(s) == IF s = <<>> THEN 0 ELSE Head(s).delay + SumDelays(Tail(s))

\* The consumer has pulled every item as soon as it got the previous one:
\* the clock has advanced only by the generator's own sleeps.
NegligibleInterArrival == now = SumDelays(sleeps)

\* The timestamps of w that lie within the trailing wt units before time t.
Trailing(w, t, wt) == {j \in DOMAIN w : w[j] > t - wt}

\* C1: no more than maxsize items are emitted within any trailing
\* waiting_time span: any maxsize + 1 consecutive emissions are spread over at
\* least waiting_time.
C1_AtMostMaxsizePerSpan ==
    \A i \in DOMAIN emitted :
        i + maxsize \in DOMAIN emitted =>
            emitted[i + maxsize].at - emitted[i].at >= waiting_time

\* C2: with maxsize = 2 and four items pulled back to back, the 3rd item is
\* available no earlier than waiting_time after the 1st emission and the 4th
\* no earlier than waiting_time after the 2nd.
C2_ThirdAndFourthDelayed ==
    (maxsize = 2 /\ Len(iterable) = 4 /\ NegligibleInterArrival) =>
        /\ Len(emitted) >= 3 => emitted[3].at >= emitted[1].at + waiting_time
        /\ Len(emitted) >= 4 => emitted[4].at >= emitted[2].at + waiting_time

\* C3: at every emission the window holds at most maxsize timestamps of the
\* trailing waiting_time span.
C3_WindowCountAtEmission ==
    \A k \in DOMAIN emitted :
        Cardinality(Trailing(emitted[k].window, emitted[k].at, waiting_time))
            <= maxsize

\* C14: none of the first maxsize items is delayed: no pacing sleep has occurred
\* before any of them is emitted, the first item is emitted with nothing
\* recorded, and the k-th pacing check runs only once the k-th item is out.
C14_FirstMaxsizeNotDelayed ==
    /\ \A k \in DOMAIN emitted :
          k <= maxsize => \A i \in DOMAIN sleeps : sleeps[i].after >= k
    /\ emitted # <<>> => emitted[1].window = <<>>
    /\ Len(checks) <= Len(emitted)
    /\ dpc = "suspended" => Len(checks) = Len(emitted) - 1

\* A later item has been delayed, the first maxsize ones have not.
C14_Witness ==
    /\ Len(emitted) > maxsize
    /\ \E i \in DOMAIN sleeps : sleeps[i].delay > 0

\* C16: the timestamps of the window are in non-decreasing order, oldest first.
C16_WindowTimeOrdered ==
    \A i, j \in DOMAIN window : i < j => window[i] <= window[j]

C16_Witness ==
    /\ Len(window) >= 2
    /\ window[1] < window[Len(window)]

\* The timestamps of w that are not older than t - wt.
NotOlder(w, t, wt) == SelectSeq(w, LAMBDA x : x >= t - wt)

\* C17: every pass after an emission appends the time t and leaves in the window
\* exactly the timestamps not older than t - waiting_time; it blocks iff more
\* than maxsize of them are left, for t minus the oldest one, and the next item
\* comes out when that time has passed.
C17_AppendPruneBlock ==
    \A k \in DOMAIN checks :
        LET c == checks[k]
        IN  /\ c.after = NotOlder(Append(c.before, c.t), c.t, waiting_time)
            /\ c.slept <=> Len(c.after) > maxsize
            /\ c.slept => c.delay = c.t - c.after[1]
            /\ ~c.slept => c.delay = 0
            /\ k + 1 \in DOMAIN emitted => emitted[k + 1].at = c.t + c.delay

\* A pass that pruned the window and then blocked, and one that did not block.
C17_Witness ==
    /\ \E k \in DOMAIN checks :
          /\ checks[k].slept
          /\ checks[k].delay > 0
          /\ Len(checks[k].after) <= Len(checks[k].before)
    /\ \E k \in DOMAIN checks : ~checks[k].slept

\* C19: a blocking duration lies in 0..waiting_time, and pruning never empties
\* the window.
C19_DelayBounded ==
    /\ \A k \in DOMAIN checks :
          /\ checks[k].after # <<>>
          /\ checks[k].slept =>
                (0 <= checks[k].delay /\ checks[k].delay <= waiting_time)
    /\ \A i \in DOMAIN sleeps :
          0 <= sleeps[i].delay /\ sleeps[i].delay <= waiting_time

\* A block of the full waiting_time, after a pass that pruned.
C19_Witness ==
    /\ waiting_time > 0
    /\ \E k \in DOMAIN checks : checks[k].slept /\ checks[k].delay = waiting_time
    /\ \E k \in DOMAIN checks : Len(checks[k].after) <= Len(checks[k].before)

IsSuffix(s, full) ==
    /\ Len(s) <= Len(full)
    /\ s = SubSeq(full, Len(full) - Len(s) + 1, Len(full))

\* How many of the first k times that call g recorded are not older than
\* t - waiting_time.
OwnRecent(g, k, t) ==
    Cardinality({j \in 1..k :
        two.gen[g].stamps[j] >= t - two.gen[g].waiting_time})

\* C15: with two calls interleaved, the window of each holds only times that
\* the call itself recorded (it is the end of its own history), a call sleeps
\* exactly when more than maxsize of its own recent times demand it, and a
\* step that is not a call's own leaves that call's window as it was.
C15_WindowPerInvocation ==
    /\ [](\A g \in Invocations :
            LET me == two.gen[g]
            IN  /\ IsSuffix(WindowOf(g), me.stamps)
                /\ \A k \in DOMAIN me.stamps :
                      (\E i \in DOMAIN me.sleeps : me.sleeps[i].after = k)
                      <=> OwnRecent(g, k, me.stamps[k]) > me.maxsize)
    /\ [][\A g \in Invocations :
            two'.gen[g] = two.gen[g] => WindowOf(g)' = WindowOf(g)]_vars

\* One call has slept for a while in the middle of the other's run (after the
\* other's first recorded time, the other still holding an item), and the
\* other has not slept at all.
C15_Witness ==
    \E g, h \in Invocations :
        /\ g # h
        /\ two.gen[h].dpc = "suspended"
        /\ two.gen[h].stamps # <<>>
        /\ two.gen[h].sleeps = <<>>
        /\ \E i \in DOMAIN two.gen[g].sleeps :
              /\ two.gen[g].sleeps[i].delay > 0
              /\ two.gen[g].sleeps[i].t > two.gen[h].stamps[1]
        /\ WindowOf(g) # <<>>
        /\ WindowOf(h) # <<>>

\* ---------------------------------------------------- orchestrator claims

\* The responses of the successful batches of bs, concatenated in batch order.
RECURSIVE ConcatSuccess(_)
ConcatSuccess(bs) ==
    IF bs = <<>> THEN <<>>
    ELSE (IF Head(bs).handled = "success" THEN Head(bs).result.value ELSE <<>>)
         \o ConcatSuccess(Tail(bs))

\* The batches before the j-th.
Before(j) == SubSeq(batches, 1, j - 1)

\* The request of batch b raised: the transport failed.
RequestRaised(b) == b.result.kind = "raise"

\* execute_requests has ended: it returned, or an exception left it.
Ended == epc \in {"done", "raised"}

\* C4: if the request for batch j ends in a transport error, the stream holds
\* exactly the records of the successful batches before j: batch j is the last
\* one a URL is built or a request issued for, no chunk after it is taken, and
\* the stream has ended.
C4_TransportErrorEndsStream ==
    \A j \in DOMAIN batches :
        RequestRaised(batches[j]) =>
            /\ j = Len(batches)
            /\ pos = j
            /\ chunk = batches[j].chunk
            /\ yielded = ConcatSuccess(Before(j))
            /\ Ended
            /\ ~cpull
            /\ batches[j].result.exc = "HTTPError" => epc = "done"

\* An HTTPError on a batch that is neither the first nor the last, records of
\* an earlier batch having been yielded.
C4_Witness ==
    \E j \in DOMAIN batches :
        /\ j >= 2
        /\ j < Len(iterable)
        /\ batches[j].result = Raise("HTTPError")
        /\ yielded # <<>>

\* The response of batch b is a failure of the request executor by the claim's
\* causes: a non-success status, or a body that is not JSON or lacks the
\* PropertyTable/Properties envelope.
StatusOrBodyFailure(b) ==
    /\ b.net.kind = "response"
    /\ \/ b.net.status \notin 200..299
       \/ ~b.net.body.json
       \/ ~b.net.body.envelope

\* C5: every such failure is a transport error the orchestrator catches and
\* handles by ending the stream normally: it neither escapes execute_requests
\* nor counts as a success.
C5_StatusAndBodyFailuresCaught ==
    \A j \in DOMAIN batches :
        StatusOrBodyFailure(batches[j]) =>
            /\ batches[j].handled = "break"
            /\ epc = "done"

\* C6: a batch whose url_builder call raised a validation error yields no
\* record and the loop goes on to the next batch: the stream is not ended by
\* it, and ends only once every batch has been taken.
C6_ValidationErrorSkipsBatch ==
    \A j \in DOMAIN batches :
        batches[j].built.kind = "raise" =>
            /\ batches[j].handled = "skip"
            /\ batches[j].result = NotCalled
            /\ j = Len(batches) =>
                    /\ yielded = ConcatSuccess(Before(j))
                    /\ epc \in {"loop", "build", "done"}
                    /\ epc = "done" => (pos = Len(iterable) /\ dpc = "done")
                    /\ epc # "done" => cpull

\* A second batch reached url_builder after the first was refused.
C6_Witness ==
    /\ Len(batches) >= 2
    /\ batches[1].built = Raise("BadNamespaceError")
    /\ batches[2].chunk = iterable[2]

\* What the consumer has been handed so far, from the responses.
ExpectedYield ==
    IF epc \in {"records", "yielded"}
    THEN ConcatSuccess(Before(Len(batches))) \o SubSeq(res, 1, ri)
    ELSE ConcatSuccess(batches)

\* C7: the records of a successful response are yielded one at a time, in
\* response order, all of them before the next batch is taken; the stream is
\* the concatenation, in batch order, of the responses of the successful
\* batches, and when a run ends with no transport error every batch was
\* processed.
C7_SuccessYieldsResponseInOrder ==
    /\ yielded = ExpectedYield
    /\ epc \in {"records", "yielded"} =>
            /\ batches[Len(batches)].handled = "success"
            /\ res = batches[Len(batches)].result.value
            /\ pos = Len(batches)
    /\ epc = "yielded" => (ri >= 1 /\ yielded[Len(yielded)] = res[ri])
    /\ (Ended /\ \A j \in DOMAIN batches : ~RequestRaised(batches[j])) =>
            /\ epc = "done"
            /\ Len(batches) = Len(iterable)
            /\ \A j \in DOMAIN batches : batches[j].chunk = iterable[j]

\* A run ended after two successful batches, one of them answered in an order
\* that is not the identifiers'.
C7_Witness ==
    /\ epc = "done"
    /\ Len(batches) >= 2
    /\ \A j \in DOMAIN batches : batches[j].handled = "success"
    /\ \E j \in DOMAIN batches :
            /\ Len(batches[j].result.value) = 2
            /\ batches[j].result.value[1].CID > batches[j].result.value[2].CID
    /\ Len(yielded) >= 3

\* C10: for a batch whose request specification fails validation the error is
\* raised before any network call: no request is issued for that batch, and a
\* request goes out only with a URL in hand.
C10_ValidationBeforeRequest ==
    /\ \A j \in DOMAIN batches :
            batches[j].built.kind = "raise" =>
                (~batches[j].requested /\ batches[j].net = NotCalled)
    /\ epc \in {"send", "request"} => built.kind = "return"

\* A run over two batches with domain "invalid" ended without any request.
C10_Witness ==
    /\ epc = "done"
    /\ d.domain = "invalid"
    /\ Len(batches) >= 2
    /\ \A j \in DOMAIN batches :
            batches[j].built = Raise("BadDomainError") /\ ~batches[j].requested

\* The batches whose request has gone out and has not come back.
InFlight == {j \in DOMAIN batches : batches[j].requested /\ batches[j].result = NotCalled}

\* C11: at most one request is in flight at any time, and the request of a
\* batch goes out only after the request of every earlier batch has completed
\* and every record of the earlier responses has been handed to the consumer.
C11_OneRequestAtATime ==
    /\ Cardinality(InFlight) <= 1
    /\ InFlight # {} => (epc = "request" /\ InFlight = {Len(batches)})
    /\ \A j \in DOMAIN batches :
            batches[j].requested =>
                /\ \A i \in 1..(j - 1) :
                        batches[i].requested => batches[i].result # NotCalled
                /\ batches[j].seen = Len(ConcatSuccess(Before(j)))

\* The second request is out, the two records of the first response consumed.
C11_Witness ==
    /\ Len(batches) >= 2
    /\ InFlight = {2}
    /\ batches[1].handled = "success"
    /\ batches[2].seen = 2

\* Some code of the pipeline has run in this step: a chunk was taken, a
\* timestamp recorded, a sleep made, a URL built or a request issued or
\* answered.
PipelineRan ==
    \/ pos' # pos
    \/ window' # window
    \/ sleeps' # sleeps
    \/ built' # built
    \/ batches' # batches
    \/ dpc' # dpc

\* C12: the pipeline is pull-driven: its code runs only while the consumer is
\* inside next(), and handing over a record ends that next(); so once the
\* consumer stops pulling no further request is issued.
C12_PullDriven ==
    [][ /\ PipelineRan => cpull
        /\ yielded' # yielded => (~cpull' /\ Len(yielded') = Len(yielded) + 1)
        /\ (~cpull /\ ~cpull') => (batches' = batches /\ ~PipelineRan)
      ]_vars

\* The consumer holds a record while batches remain, and the generator has
\* slept for pacing during an earlier pull.
C12_Witness ==
    /\ epc = "yielded"
    /\ ~cpull
    /\ pos < Len(iterable)
    /\ sleeps # <<>>

\* The concatenation of a sequence of sequences.
RECURSIVE Flatten(_)
Flatten(ss) == IF ss = <<>> THEN <<>> ELSE Head(ss) \o Flatten(Tail(ss))

Terminates == <>Ended

\* C21: if every request returns and the consumer keeps pulling, the pipeline
\* over a finite range eventually reaches the end of the sequence.
C21_EventuallyEndOfSequence == <>(epc = "done")

\* --------------------------------------------------- url_builder claims

\* The three validation rules, on the request specification.
ValidDomain(kw) == is_compound(kw.domain)

ValidNamespace(kw) ==
    \/ is_simple_namespace(kw.namespace_prefix, kw.namespace_suffix)
    \/ is_namespace_search(kw.namespace_prefix, kw.namespace_suffix)

ValidOperation(kw) ==
    \/ is_simple_operation(kw.operation, kw.tags)
    \/ is_complex_operation(kw.operation, kw.tags)

\* C8: url_builder returns a URL exactly for the request specifications whose
\* domain, namespace and operation are all valid; for every other one it raises
\* BadDomainError, BadNamespaceError or BadOperationError, each only when its
\* own rule is violated, and returns nothing.
C8_UrlOnlyForValidSpec ==
    built # NotCalled =>
        /\ built.kind = "return" <=>
                (ValidDomain(d) /\ ValidNamespace(d) /\ ValidOperation(d))
        /\ built.kind = "return" => SubSeq(built.value, 1, 1) = BASE_URL
        /\ built.kind # "return" =>
                /\ built.kind = "raise"
                /\ built.exc \in {"BadDomainError", "BadNamespaceError",
                                   "BadOperationError"}
                /\ built.exc = "BadDomainError" => ~ValidDomain(d)
                /\ built.exc = "BadNamespaceError" => ~ValidNamespace(d)
                /\ built.exc = "BadOperationError" => ~ValidOperation(d)

\* A complex operation called with an empty tag list was refused.
C8_Witness ==
    /\ built = Raise("BadOperationError")
    /\ d.operation \in OperationComplex
    /\ d.tags = Some(<<>>)

\* C9: the rules are applied in the order domain, namespace, operation: the
\* error raised is that of the first rule violated.
C9_ValidationOrder ==
    built # NotCalled =>
        /\ ~ValidDomain(d) => built = Raise("BadDomainError")
        /\ (ValidDomain(d) /\ ~ValidNamespace(d)) =>
                built = Raise("BadNamespaceError")
        /\ (ValidDomain(d) /\ ValidNamespace(d) /\ ~ValidOperation(d)) =>
                built = Raise("BadOperationError")

\* A specification violating all three rules raised the domain error.
C9_Witness ==
    /\ built = Raise("BadDomainError")
    /\ ~ValidNamespace(d)
    /\ ~ValidOperation(d)

\* The identifiers that ids stands for, as strings.
Identifiers(a) ==
    CASE a.shape = "number" -> IdStrings(a.nums)
      [] a.shape = "string" -> a.strs
      [] a.shape = "numbers" -> IdStrings(a.nums)
      [] a.shape = "strings" -> a.strs

\* The URL of a valid request specification whose identifier segment is ids.
UrlWithIds(idsegment, kw) ==
    concat(<<BASE_URL, Str(kw.domain), JoinedNamespaces(kw).value, idsegment,
             OperationSpec(kw).value, Str(kw.output)>>, "/")

\* C18: for ids a number, a string or a sequence of either, and a valid request
\* specification, url_builder returns the URL whose identifier segment is the
\* identifiers joined by commas, a single identifier standing as it is.
C18_AnyIdsJoined ==
    (built # NotCalled /\ ValidDomain(d) /\ ValidNamespace(d) /\ ValidOperation(d))
        => built = Return(UrlWithIds(Join(Identifiers(chunk), ","), d))

====
